---- MODULE Spec2Model ----
(***************************************************************************)
(* A model of src/src/spm_image.rs: the SpmImage height map, its two       *)
(* corrections (correct_plane, correct_lines), its normalisation to bytes  *)
(* (norm, norm_selection, normalize_min_max) and flip_img_data.            *)
(*                                                                         *)
(* Samples are f64 in the source.  Here a height map holds exact           *)
(* rationals: sample k is img_data[k] / scale, with scale > 0 and the      *)
(* greatest common divisor of scale and all numerators equal to 1, so that *)
(* equal sample vectors have equal representations.  Rounding error of     *)
(* f64 arithmetic is not modelled; the non-finite values of f64 (NaN and   *)
(* the infinities of a division by zero) are.                              *)
(* Buffer index k of the source (0-based) is index k+1 of a sequence here. *)
(***************************************************************************)
EXTENDS Integers, Sequences, FiniteSets

\* ------------------------------------------------------------------ bounds
MaxRes == 3
MaxCells == 6
MaxNormCells == 4
MaxVal == 2
MaxCalls == 2

VARIABLES img_id, xsize, ysize, xres, yres, img_data, scale,
          orig, before, hist, call, outcome, pixels

vars == <<img_id, xsize, ysize, xres, yres, img_data, scale,
          orig, before, hist, call, outcome, pixels>>

\* ------------------------------------------------------------- arithmetic
Abs(n) == IF n < 0 THEN -n ELSE n

RECURSIVE GCD(_, _)
GCD(a, b) == IF b = 0 THEN Abs(a) ELSE GCD(b, a % Abs(b))

RECURSIVE SumSeq(_)
SumSeq(s) == IF Len(s) = 0 THEN 0 ELSE Head(s) + SumSeq(Tail(s))

RECURSIVE GcdSeq(_, _)
GcdSeq(s, g) == IF Len(s) = 0 THEN g ELSE GcdSeq(Tail(s), GCD(g, Head(s)))

\* The samples nums[k] / sc in lowest terms.
Canon(nums, sc) ==
    LET g == GcdSeq(nums, sc)
    IN  [img_data |-> [k \in 1..Len(nums) |-> nums[k] \div g], scale |-> sc \div g]

\* ------------------------------------------------------------ ndarray views
\* Array::from_vec(v).into_shape((rows, cols)): element [i, j] of the row-major
\* view is v[i * cols + j]; the call fails unless rows * cols = v.len().
ShapeOk(v, rows, cols) == Len(v) = rows * cols

At(v, cols, i, j) == v[i * cols + j + 1]

RowOf(k, cols) == (k - 1) \div cols

ColOf(k, cols) == (k - 1) % cols

\* ------------------------------------------------------------ correct_lines
\* mean_axis(Axis(1)) of the (xres, yres) view: entry i is the mean of the
\* yres consecutive samples v[i*yres .. (i+1)*yres); here yres times that mean.
AxisSums(v, rows, cols) ==
    [i \in 0..(rows - 1) |-> SumSeq([j \in 1..cols |-> At(v, cols, i, j - 1)])]

\* correct_lines as it would be if the row means themselves were stored back.
correct_lines_means_only(d, sc, xr, yr) ==
    IF ~ShapeOk(d, xr, yr) \/ yr = 0
    THEN [outcome |-> "panic", img_data |-> d, scale |-> sc]
    ELSE LET sums == AxisSums(d, xr, yr)
             c == Canon([i \in 1..xr |-> sums[i - 1]], sc * yr)
         IN  [outcome |-> "ok", img_data |-> c.img_data, scale |-> c.scale]

correct_lines(d, sc, xr, yr) ==
    IF ~ShapeOk(d, xr, yr) \/ yr = 0
    THEN [outcome |-> "panic", img_data |-> d, scale |-> sc]
    ELSE LET sums == AxisSums(d, xr, yr)
             c == Canon([k \in 1..Len(d) |-> d[k] * yr - sums[RowOf(k, yr)]], sc * yr)
         IN  [outcome |-> "ok", img_data |-> c.img_data, scale |-> c.scale]

\* ------------------------------------------------------------ correct_plane
Det3(m) ==
      m[1][1] * (m[2][2] * m[3][3] - m[2][3] * m[3][2])
    - m[1][2] * (m[2][1] * m[3][3] - m[2][3] * m[3][1])
    + m[1][3] * (m[2][1] * m[3][2] - m[2][2] * m[3][1])

\* x_coords and y_coords of the (xres, yres) view, flattened: at flat index
\* k = i*yres + j the x coordinate is j and the y coordinate is i.
x_coords(n, xr, yr) == [k \in 1..n |-> ColOf(k, yr)]

y_coords(n, xr, yr) == [k \in 1..n |-> RowOf(k, yr)]

Dot(a, b) == SumSeq([k \in 1..Len(a) |-> a[k] * b[k]])

\* coeffs.least_squares(z) for the design matrix with columns [1, x, y]: the
\* minimiser of the squared residual, by the normal equations and Cramer's
\* rule.  The solution is res[i] = num[i] / det; det = 0 exactly when the
\* columns are linearly dependent, and fewer than three rows is never thin.
least_squares(x, y, z) ==
    LET n == Len(z)
        one == [k \in 1..n |-> 1]
        g == <<<<n, Dot(one, x), Dot(one, y)>>,
               <<Dot(x, one), Dot(x, x), Dot(x, y)>>,
               <<Dot(y, one), Dot(y, x), Dot(y, y)>>>>
        r == <<Dot(one, z), Dot(x, z), Dot(y, z)>>
        Col(c) == [i \in 1..3 |-> [j \in 1..3 |-> IF j = c THEN r[i] ELSE g[i][j]]]
        det == Det3(g)
    IN  IF n < 3 \/ det = 0
        THEN [ok |-> FALSE, det |-> 0, num |-> <<0, 0, 0>>]
        ELSE [ok |-> TRUE, det |-> det, num |-> <<Det3(Col(1)), Det3(Col(2)), Det3(Col(3))>>]

\* correct_plane as it would be if the correction left out the intercept term.
correct_plane_no_intercept(d, sc, xr, yr) ==
    IF ~ShapeOk(d, xr, yr)
    THEN [outcome |-> "panic", img_data |-> d, scale |-> sc]
    ELSE LET x == x_coords(Len(d), xr, yr)
             y == y_coords(Len(d), xr, yr)
             res == least_squares(x, y, d)
         IN  IF ~res.ok
             THEN [outcome |-> "panic", img_data |-> d, scale |-> sc]
             ELSE LET c == Canon([k \in 1..Len(d) |->
                                    d[k] * res.det
                                    - (x[k] * res.num[2] + y[k] * res.num[3])],
                                 sc * res.det)
                  IN  [outcome |-> "ok", img_data |-> c.img_data, scale |-> c.scale]

correct_plane(d, sc, xr, yr) ==
    IF ~ShapeOk(d, xr, yr)
    THEN [outcome |-> "panic", img_data |-> d, scale |-> sc]
    ELSE LET x == x_coords(Len(d), xr, yr)
             y == y_coords(Len(d), xr, yr)
             res == least_squares(x, y, d)
         IN  IF ~res.ok
             THEN [outcome |-> "panic", img_data |-> d, scale |-> sc]
             ELSE LET c == Canon([k \in 1..Len(d) |->
                                    d[k] * res.det
                                    - (res.num[1] + x[k] * res.num[2] + y[k] * res.num[3])],
                                 sc * res.det)
                  IN  [outcome |-> "ok", img_data |-> c.img_data, scale |-> c.scale]

\* ------------------------------------------------------------------- state
Shapes(cells) == {s \in (1..MaxRes) \X (1..MaxRes) : s[1] * s[2] <= cells}

\* What a loader leaves besides the grid: the metadata, and no call made yet.
Fresh ==
    /\ img_id = "img"
    /\ xsize = 10
    /\ ysize = 20
    /\ scale = 1
    /\ orig = img_data
    /\ before = [img_data |-> img_data, scale |-> 1]
    /\ hist = <<>>
    /\ call = [op |-> "load", args |-> <<>>]
    /\ outcome = "ok"
    /\ pixels = <<>>

\* A height map as a loader builds it: img_data.len() = xres * yres.
Loaded(cells) ==
    /\ \E s \in Shapes(cells) :
          /\ xres = s[1]
          /\ yres = s[2]
          /\ img_data \in [1..(s[1] * s[2]) -> 0..MaxVal]
    /\ Fresh

Init == Loaded(MaxCells)

Correct(op, r) ==
    /\ outcome # "panic"
    /\ Len(hist) < MaxCalls
    /\ before' = [img_data |-> img_data, scale |-> scale]
    /\ img_data' = r.img_data
    /\ scale' = r.scale
    /\ outcome' = r.outcome
    /\ hist' = Append(hist, op)
    /\ call' = [op |-> op, args |-> <<>>]
    /\ pixels' = <<>>
    /\ UNCHANGED <<img_id, xsize, ysize, xres, yres, orig>>

CorrectPlane == Correct("correct_plane", correct_plane(img_data, scale, xres, yres))

CorrectLines == Correct("correct_lines", correct_lines(img_data, scale, xres, yres))

Next == CorrectPlane \/ CorrectLines

Spec == Init /\ [][Next]_vars

\* ------------------------------------------------------------ normalisation
\* The f64 value of a / b for two numerators a, b over the same scale: finite
\* (the rational n / d), or what IEEE 754 gives for a zero divisor.
f64_div(a, b) ==
    IF b # 0 THEN [kind |-> "fin", n |-> a, d |-> b]
    ELSE IF a = 0 THEN [kind |-> "nan", n |-> 0, d |-> 1]
    ELSE IF a > 0 THEN [kind |-> "inf", n |-> 0, d |-> 1]
    ELSE [kind |-> "ninf", n |-> 0, d |-> 1]

f64_mul(v, c) == IF v.kind = "fin" THEN [v EXCEPT !.n = v.n * c] ELSE v

\* n / d rounded toward zero.
Trunc(n, d) ==
    LET q == Abs(n) \div Abs(d)
    IN  IF (n < 0) = (d < 0) THEN q ELSE -q

\* `as u8` of an f64: NaN gives 0, otherwise rounded toward zero and saturated.
as_u8(v) ==
    IF v.kind = "nan" THEN 0
    ELSE IF v.kind = "inf" THEN 255
    ELSE IF v.kind = "ninf" THEN 0
    ELSE LET t == Trunc(v.n, v.d)
         IN  IF t < 0 THEN 0 ELSE IF t > 255 THEN 255 ELSE t

\* (x - min) / diff * 255.0, before the cast.
scaled(x, min, max) == f64_mul(f64_div(x - min, max - min), 255)

\* normalize_min_max with a factor of 256 in place of 255.
normalize_min_max_256(d, min, max) ==
    [k \in 1..Len(d) |-> as_u8(f64_mul(f64_div(d[k] - min, max - min), 256))]

normalize_min_max(d, min, max) == [k \in 1..Len(d) |-> as_u8(scaled(d[k], min, max))]

MinOf(S) == CHOOSE m \in S : \A v \in S : m <= v

MaxOf(S) == CHOOSE m \in S : \A v \in S : v <= m

Values(d) == {d[k] : k \in 1..Len(d)}

norm(d) ==
    IF Len(d) = 0
    THEN [outcome |-> "panic", pixels |-> <<>>]
    ELSE [outcome |-> "ok", pixels |-> normalize_min_max(d, MinOf(Values(d)), MaxOf(Values(d)))]

\* ndarray's slice of one axis of length len by start..end: an end before the
\* start is moved to the start (an empty slice), and a start or an end past
\* the axis is a failed assertion.
SliceOk(len, start, end) ==
    start <= len /\ (IF end < start THEN start ELSE end) <= len

\* The samples of the (yres, xres) view inside rows y_start..y_end and columns
\* x_start..x_end.
Selection(d, xr, y_start, y_end, x_start, x_end) ==
    {At(d, xr, y, x) : y \in y_start..(y_end - 1), x \in x_start..(x_end - 1)}

\* norm_selection as it would be if the bounds were taken over the whole grid.
norm_selection_global(d, xr, yr, y_start, y_end, x_start, x_end) ==
    IF ~ShapeOk(d, yr, xr) \/ ~SliceOk(yr, y_start, y_end) \/ ~SliceOk(xr, x_start, x_end)
    THEN [outcome |-> "panic", pixels |-> <<>>]
    ELSE LET sel == Selection(d, xr, y_start, y_end, x_start, x_end)
         IN  IF sel = {}
             THEN [outcome |-> "err", pixels |-> <<>>]
             ELSE [outcome |-> "ok",
                   pixels |-> normalize_min_max(d, MinOf(Values(d)), MaxOf(Values(d)))]

norm_selection(d, xr, yr, y_start, y_end, x_start, x_end) ==
    IF ~ShapeOk(d, yr, xr) \/ ~SliceOk(yr, y_start, y_end) \/ ~SliceOk(xr, x_start, x_end)
    THEN [outcome |-> "panic", pixels |-> <<>>]
    ELSE LET sel == Selection(d, xr, y_start, y_end, x_start, x_end)
         IN  IF sel = {}
             THEN [outcome |-> "err", pixels |-> <<>>]
             ELSE [outcome |-> "ok", pixels |-> normalize_min_max(d, MinOf(sel), MaxOf(sel))]

\* to_png_bytes_selection: the error of norm_selection is passed on by `?`;
\* otherwise its pixels go to create_png_bytes, whose encoding is not modelled.
to_png_bytes_selection(d, xr, yr, y_start, y_end, x_start, x_end) ==
    norm_selection(d, xr, yr, y_start, y_end, x_start, x_end)

\* A call of a method that takes &self: the height map is left alone and the
\* call's result is recorded.  One such call is made on a loaded height map;
\* a second one would see the same height map and give the same results.
Read(op, args, r) ==
    /\ call.op = "load"
    /\ call' = [op |-> op, args |-> args]
    /\ outcome' = r.outcome
    /\ pixels' = r.pixels
    /\ UNCHANGED <<img_id, xsize, ysize, xres, yres, img_data, scale, orig, before, hist>>

Norm == Read("norm", <<>>, norm(img_data))

NormSelection ==
    \E y_start \in 0..yres, y_end \in 0..(yres + 1),
       x_start \in 0..xres, x_end \in 0..(xres + 1) :
        Read("norm_selection", <<y_start, y_end, x_start, x_end>>,
             norm_selection(img_data, xres, yres, y_start, y_end, x_start, x_end))

ToPngBytesSelection ==
    \E y_start \in 0..yres, y_end \in 0..(yres + 1),
       x_start \in 0..xres, x_end \in 0..(xres + 1) :
        Read("to_png_bytes_selection", <<y_start, y_end, x_start, x_end>>,
             to_png_bytes_selection(img_data, xres, yres, y_start, y_end, x_start, x_end))

InitNorm == Loaded(MaxNormCells)

NextNorm == Norm \/ NormSelection \/ ToPngBytesSelection

SpecNorm == InitNorm /\ [][NextNorm]_vars

\* ------------------------------------------------------------ flip_img_data
RECURSIVE FlipRows(_, _, _)
\* The rows i-1, i-2, ..., 0 of d, each d[i*xres .. (i+1)*xres), one after
\* the other.
FlipRows(d, xr, i) ==
    IF i = 0 THEN <<>>
    ELSE SubSeq(d, (i - 1) * xr + 1, i * xr) \o FlipRows(d, xr, i - 1)

\* flip_img_data as it would be if the whole buffer were reversed.
flip_reverse_all(d, xr, yr) ==
    IF xr * yr > Len(d)
    THEN [outcome |-> "panic", img_data |-> d]
    ELSE [outcome |-> "ok", img_data |-> [k \in 1..(xr * yr) |-> d[xr * yr + 1 - k]]]

flip_img_data(d, xr, yr) ==
    IF xr * yr > Len(d)
    THEN [outcome |-> "panic", img_data |-> d]
    ELSE [outcome |-> "ok", img_data |-> FlipRows(d, xr, yr)]

Flip ==
    LET r == flip_img_data(img_data, xres, yres)
    IN  /\ outcome # "panic"
        /\ Len(hist) < MaxCalls
        /\ before' = [img_data |-> img_data, scale |-> scale]
        /\ img_data' = r.img_data
        /\ outcome' = r.outcome
        /\ hist' = Append(hist, "flip_img_data")
        /\ call' = [op |-> "flip_img_data", args |-> <<>>]
        /\ pixels' = <<>>
        /\ UNCHANGED <<img_id, xsize, ysize, xres, yres, scale, orig>>

\* A loaded height map, or the buffer 1, 2, ..., xres*yres.
InitFlip ==
    \/ Loaded(MaxCells)
    \/ /\ \E s \in Shapes(MaxCells) :
             /\ xres = s[1]
             /\ yres = s[2]
             /\ img_data = [k \in 1..(s[1] * s[2]) |-> k]
       /\ Fresh

NextFlip == Flip

SpecFlip == InitFlip /\ [][NextFlip]_vars

\* ================================================================= claims
\* The samples of buffer row r (the xres consecutive samples of scan line r).
ScanLine(d, r) == [x \in 1..xres |-> d[r * xres + x]]

AllOrders == {<<"correct_plane", "correct_lines">>, <<"correct_lines", "correct_plane">>}

\* C1: after correct_lines every scan line (the xres consecutive samples of
\* buffer row r, r in [0, yres)) has mean zero, and every sample is its
\* previous value minus the mean of its own scan line, on square and on
\* non-square grids alike.
C1_LinesRemoveRowMeans ==
    (call.op = "correct_lines" /\ outcome = "ok") =>
        \A r \in 0..(yres - 1) :
            /\ SumSeq(ScanLine(img_data, r)) = 0
            /\ \A x \in 1..xres :
                  img_data[r * xres + x] * before.scale * xres =
                      scale * (before.img_data[r * xres + x] * xres
                               - SumSeq(ScanLine(before.img_data, r)))

\* The sample at row y and column x (buffer index y*xres + x) is a + b*x + c*y.
Planar(d) ==
    LET a == d[1]
        b == d[2] - d[1]
        c == d[xres + 1] - d[1]
    IN  \A y \in 0..(yres - 1), x \in 0..(xres - 1) :
            d[y * xres + x + 1] = a + b * x + c * y

\* C2: on a grid with xres >= 2 and yres >= 2, square or not, whose samples
\* are exactly planar in the column index x and the row index y,
\* correct_plane leaves every sample zero.
C2_PlanarGridLevelsToZero ==
    (call.op = "correct_plane" /\ xres >= 2 /\ yres >= 2 /\ Planar(before.img_data)) =>
        (outcome = "ok" /\ \A k \in 1..Len(img_data) : img_data[k] = 0)

RectValid(a) == 0 <= a[1] /\ a[1] < a[2] /\ a[2] <= yres /\ 0 <= a[3] /\ a[3] < a[4] /\ a[4] <= xres

RectEmpty(a) == a[1] >= a[2] \/ a[3] >= a[4]

RectOutOfBounds(a) == a[2] > yres \/ a[4] > xres

\* The samples inside the rectangle a = <<y_start, y_end, x_start, x_end>>.
Inside(a) ==
    {img_data[y * xres + x + 1] : y \in a[1]..(a[2] - 1), x \in a[3]..(a[4] - 1)}

Lowest(S) == CHOOSE m \in S : \A v \in S : m <= v

Highest(S) == CHOOSE m \in S : \A v \in S : m >= v

\* floor((v - lo) / (hi - lo) * 255) clamped to [0, 255], for hi > lo.
FloorByte(v, lo, hi) ==
    LET f == ((v - lo) * 255) \div (hi - lo)
    IN  IF f < 0 THEN 0 ELSE IF f > 255 THEN 255 ELSE f

\* C3: for a valid rectangle whose samples have rmax > rmin, norm_selection
\* returns xres*yres bytes, and every sample v of the whole grid maps to
\* floor((v - rmin) / (rmax - rmin) * 255) clamped to [0, 255], rmin and
\* rmax being the bounds of the samples inside the rectangle only.
C3_SelectionBoundsWholeGrid ==
    (call.op = "norm_selection" /\ RectValid(call.args)
        /\ Highest(Inside(call.args)) > Lowest(Inside(call.args))) =>
        /\ outcome = "ok"
        /\ Len(pixels) = xres * yres
        /\ \A k \in 1..(xres * yres) :
              pixels[k] = FloorByte(img_data[k], Lowest(Inside(call.args)),
                                    Highest(Inside(call.args)))

\* A sample outside the rectangle lies above the rectangle's maximum and
\* maps to 255, while the rectangle's minimum maps to 0.
C3_Witness ==
    /\ call.op = "norm_selection"
    /\ RectValid(call.args)
    /\ outcome = "ok"
    /\ Highest(Inside(call.args)) > Lowest(Inside(call.args))
    /\ \E k \in 1..Len(pixels) : img_data[k] > Highest(Inside(call.args)) /\ pixels[k] = 255
    /\ \E k \in 1..Len(pixels) : pixels[k] = 0

\* C4: region-scoped normalisation returns an error, and no buffer, for
\* every rectangle that is empty or out of bounds; it never aborts.
C4_BadRectangleIsAnError ==
    (call.op \in {"norm_selection", "to_png_bytes_selection"}
        /\ (RectEmpty(call.args) \/ RectOutOfBounds(call.args))) =>
        (outcome = "err" /\ pixels = <<>>)

\* C5: correct_plane returns a numeric error to its caller whenever the
\* design matrix with columns [1, x, y] is rank-deficient (xres < 2 or
\* yres < 2); it does not abort.
C5_SingularFitIsAnError ==
    (call.op = "correct_plane" /\ (xres < 2 \/ yres < 2)) => outcome = "err"

\* C6: when the samples are not all equal, norm returns xres*yres bytes,
\* each floor((value - min) / (max - min) * 255) and in [0, 255]; a sample
\* equal to the minimum maps to 0 and one equal to the maximum to 255.
C6_GlobalNormalisation ==
    (call.op = "norm" /\ Cardinality(Values(img_data)) > 1) =>
        LET lo == Lowest(Values(img_data))
            hi == Highest(Values(img_data))
        IN  /\ outcome = "ok"
            /\ Len(pixels) = xres * yres
            /\ \A k \in 1..(xres * yres) :
                  /\ pixels[k] \in 0..255
                  /\ (hi - lo) * pixels[k] <= (img_data[k] - lo) * 255
                  /\ (img_data[k] - lo) * 255 < (hi - lo) * (pixels[k] + 1)
                  /\ img_data[k] = lo => pixels[k] = 0
                  /\ img_data[k] = hi => pixels[k] = 255

\* norm has mapped the minimum to 0, the maximum to 255 and a sample half
\* way between them to 127.
C6_Witness ==
    /\ call.op = "norm"
    /\ outcome = "ok"
    /\ \E i, j, k \in 1..Len(pixels) : pixels[i] = 0 /\ pixels[j] = 127 /\ pixels[k] = 255

\* C7: when all samples are equal, norm returns xres*yres bytes that are all
\* 0, and no byte is the cast of an undefined division result.
C7_UniformGridHandled ==
    (call.op = "norm" /\ Cardinality(Values(img_data)) = 1) =>
        /\ outcome = "ok"
        /\ Len(pixels) = xres * yres
        /\ \A k \in 1..(xres * yres) :
              /\ pixels[k] = 0
              /\ scaled(img_data[k], Lowest(Values(img_data)),
                        Highest(Values(img_data))).kind = "fin"

\* C8: flip_img_data returns a buffer of the same length whose row r is the
\* input's row yres-1-r with the order inside each row unchanged; flipping
\* twice gives the original buffer, and for xres = 2, yres = 3 the buffer
\* 1,2,3,4,5,6 becomes 5,6,3,4,1,2.
C8_FlipReversesRows ==
    (call.op = "flip_img_data" /\ Len(before.img_data) = xres * yres) =>
        /\ outcome = "ok"
        /\ Len(img_data) = Len(before.img_data)
        /\ \A r \in 0..(yres - 1), x \in 1..xres :
              img_data[r * xres + x] = before.img_data[(yres - 1 - r) * xres + x]
        /\ Len(hist) = 2 => img_data = orig
        /\ (Len(hist) = 1 /\ xres = 2 /\ yres = 3 /\ orig = <<1, 2, 3, 4, 5, 6>>)
              => img_data = <<5, 6, 3, 4, 1, 2>>

\* The buffer 1,2,3,4,5,6 of a 2 by 3 grid has been flipped once.
C8_Witness ==
    /\ call.op = "flip_img_data"
    /\ xres = 2
    /\ yres = 3
    /\ orig = <<1, 2, 3, 4, 5, 6>>
    /\ img_data = <<5, 6, 3, 4, 1, 2>>

\* The result of the two corrections applied to d in the order o.
InOrder(o, d, xr, yr) ==
    LET Apply(op, m) ==
            IF m.outcome # "ok" THEN m
            ELSE IF op = "correct_plane" THEN correct_plane(m.img_data, m.scale, xr, yr)
            ELSE correct_lines(m.img_data, m.scale, xr, yr)
    IN  Apply(o[2], Apply(o[1], [outcome |-> "ok", img_data |-> d, scale |-> 1]))

\* The two orders both return on d and leave different samples.
Differ(d, xr, yr) ==
    LET pl == InOrder(<<"correct_plane", "correct_lines">>, d, xr, yr)
        lp == InOrder(<<"correct_lines", "correct_plane">>, d, xr, yr)
    IN  pl.outcome = "ok" /\ lp.outcome = "ok" /\ pl # lp

C10_CorrectionsKeepShape ==
    [][(call'.op \in {"correct_plane", "correct_lines"} /\ outcome' = "ok") =>
           /\ Len(img_data') = xres' * yres'
           /\ UNCHANGED <<img_id, xsize, ysize, xres, yres>>]_vars

\* Two corrections have returned on a non-square grid and changed the samples.
C10_Witness ==
    /\ Len(hist) = 2
    /\ outcome = "ok"
    /\ xres # yres
    /\ img_data # orig
    /\ Len(img_data) = xres * yres

====
